---- MODULE Spec2Model ----
(***************************************************************************)
(* Model of weatherchecker/core.py: the Weather Proxy, the Proxy Matrix    *)
(* (WeatherProxyTable) with its thread-per-fetch refresh, the History Log  *)
(* (WeatherHistory) and the Orchestrator (Core).                           *)
(*                                                                         *)
(* Python values are encoded as follows.                                   *)
(*   None / a value     the empty tuple <<>> / the one-element tuple <<v>>  *)
(*   dict               a function (record) from keys to values            *)
(*   list               a sequence                                         *)
(*   str built by %     the sequence of its pieces (literal and substituted*)
(*                      parts), since TLA+ has no string concatenation     *)
(*   a source name      the sequence of its characters                     *)
(***************************************************************************)
EXTENDS Integers, Sequences, FiniteSets, TLC

VARIABLES table,     \* WeatherProxyTable.__table: list of matrix entries
          history,   \* WeatherHistory.__table: list of history entries
          clock,     \* the last value time.time() returned
          pc,        \* per caller: where the caller's current call stands
          call,      \* per caller: the operation being called and its arguments
          threads,   \* per caller: the local list `threads` of WeatherProxyTable.refresh
          k,         \* per caller: position in the start loop / join loop
          refreshed, \* the number of Core.refresh calls that have returned
          view       \* the value a reader got from WeatherHistory.entries

vars == <<table, history, clock, pc, call, threads, k, refreshed, view>>

-----------------------------------------------------------------------------
(* Bounds of the model *)

MaxLocations == 2   \* add_location is called while fewer rows than this are present
MaxHistory == 2     \* Core.refresh is called while the log is shorter than this
MaxTime == 1        \* time.time() returns a value in Epoch..Epoch + MaxTime
Epoch == 9          \* the value of the clock when Core is constructed

-----------------------------------------------------------------------------
(* Python values *)

None == <<>>
Some(v) == <<v>>

EmptyDict == [x \in {} |-> x]

\* helpers.merge_dicts(a, b): a new dict holding a's items overridden by b's
merge_dicts(a, b) ==
    [x \in (DOMAIN a) \cup (DOMAIN b) |-> IF x \in DOMAIN b THEN b[x] ELSE a[x]]

\* dict.update(b) applied to a, as a value
dict_update(a, b) ==
    [x \in (DOMAIN a) \cup (DOMAIN b) |-> IF x \in DOMAIN b THEN b[x] ELSE a[x]]

\* helpers.db_add(table, entry): append
db_add(t, entry) == Append(t, entry)

\* the indices of the entries of t that match the criteria {field: value}
RECURSIVE db_find_from(_, _, _, _)
db_find_from(t, field, value, i) ==
    IF i > Len(t) THEN <<>>
    ELSE IF t[i][field] = value
         THEN <<i>> \o db_find_from(t, field, value, i + 1)
         ELSE db_find_from(t, field, value, i + 1)

\* helpers.db_find(table, {field: value}): the matching entries, in table
\* order, given by their positions in the table
db_find(t, field, value) == db_find_from(t, field, value, 1)

\* helpers.db_remove(table, {field: value}): drop every matching entry
db_remove(t, field, value) == SelectSeq(t, LAMBDA e : e[field] # value)

-----------------------------------------------------------------------------
(* Configuration: what Settings and global_settings hand to Core *)

WTYPES == <<"current", "forecast">>

\* a URL template: literal pieces and %(key)s placeholders
Lit(s) == [kind |-> "lit", v |-> s]
Ph(key) == [kind |-> "ph", v |-> key]

CurrentTemplate ==
    <<Lit("http://owm/weather?id="), Ph("id"), Lit("&appid="), Ph("appid"),
      Lit("&units="), Ph("units")>>
ForecastTemplate ==
    <<Lit("http://owm/forecast?id="), Ph("id"), Lit("&appid="), Ph("appid")>>

SourceOwm ==
    [name |-> <<"O", "W", "M">>,
     urls |-> [current |-> CurrentTemplate, forecast |-> ForecastTemplate]]

sources_info == <<SourceOwm>>

Loc1 == [id |-> "42"]
Loc2 == [id |-> "7", appid |-> "lockey"]
Locations == {Loc1, Loc2}

environment == [appid |-> "envkey"]

\* the `locations` sequences the settings file may hold at construction
SettingsLocations == {<<>>, <<Loc1>>, <<Loc1, Loc2>>}

\* the weather-types a caller may pass to refresh
WtypeArgs == {"current", "forecast", "hourly"}

-----------------------------------------------------------------------------
(* WeatherProxy *)

\* collections.defaultdict(lambda: '') lookup
url_param(url_params, key) ==
    IF key \in DOMAIN url_params THEN url_params[key] ELSE ""

\* url % self.url_params
format_url(url, url_params) ==
    [i \in 1..Len(url) |->
        IF url[i].kind = "lit" THEN url[i].v ELSE url_param(url_params, url[i].v)]

\* WeatherProxy.__init__
WeatherProxy(url, url_params) ==
    [url |-> format_url(url, url_params), data |-> None, status_code |-> None]

\* what requests.get may return
Responses ==
    {[text |-> "sunny", status_code |-> 200]}

-----------------------------------------------------------------------------
(* WeatherProxyTable *)

proxy_entry_schema ==
    [proxy |-> None, wtype |-> "", source |-> "", location |-> None]

\* a variant that pairs the two sequences position by position (zip)
product_zip(a, b) ==
    [i \in 1..(IF Len(a) < Len(b) THEN Len(a) ELSE Len(b)) |-> <<a[i], b[i]>>]

\* itertools.product(a, b): the pairs in row-major order
product(a, b) ==
    [i \in 1..(Len(a) * Len(b)) |->
        <<a[((i - 1) \div Len(b)) + 1], b[((i - 1) % Len(b)) + 1]>>]

\* a variant that updates with the location last, so that the location wins
new_entry_location_first(category, source, location, params) ==
    merge_dicts(proxy_entry_schema,
                [proxy |-> WeatherProxy(source.urls[category],
                                        dict_update(dict_update(EmptyDict, params), location)),
                 wtype |-> category,
                 source |-> source,
                 location |-> location])

\* the entry add_location builds for one (category, source) pair
new_entry(category, source, location, params) ==
    merge_dicts(proxy_entry_schema,
                [proxy |-> WeatherProxy(source.urls[category],
                                        dict_update(dict_update(EmptyDict, location), params)),
                 wtype |-> category,
                 source |-> source,
                 location |-> location])

RECURSIVE add_pairs(_, _, _, _, _)
add_pairs(t, pairs, i, location, params) ==
    IF i > Len(pairs) THEN t
    ELSE add_pairs(db_add(t, new_entry(pairs[i][1], pairs[i][2], location, params)),
                   pairs, i + 1, location, params)

\* WeatherProxyTable.add_location, as a function of the table
add_location(t, location, params) ==
    add_pairs(t, product(WTYPES, sources_info), 1, location, params)

\* a variant that stops at the first matching entry
RECURSIVE remove_first(_, _, _)
remove_first(t, location, i) ==
    IF i > Len(t) THEN t
    ELSE IF t[i].location = location
         THEN SubSeq(t, 1, i - 1) \o SubSeq(t, i + 1, Len(t))
         ELSE remove_first(t, location, i + 1)

remove_location_first(t, location) == remove_first(t, location, 1)

\* WeatherProxyTable.remove_location, as a function of the table
remove_location(t, location) == db_remove(t, "location", location)

RECURSIVE construct_table(_, _, _, _)
construct_table(t, locations, i, params) ==
    IF i > Len(locations) THEN t
    ELSE construct_table(add_location(t, locations[i], params), locations, i + 1, params)

\* WeatherProxyTable.__init__
WeatherProxyTable(locations, params) == construct_table(<<>>, locations, 1, params)

\* a variant that lists the entries last to first
proxy_info_reversed(t) ==
    [i \in 1..Len(t) |->
        [wtype |-> t[Len(t) + 1 - i].wtype, source |-> t[Len(t) + 1 - i].source,
         data |-> t[Len(t) + 1 - i].proxy.data, url |-> t[Len(t) + 1 - i].proxy.url,
         location |-> t[Len(t) + 1 - i].location]]

\* WeatherProxyTable.proxy_info
proxy_info(t) ==
    [i \in 1..Len(t) |->
        [wtype |-> t[i].wtype, source |-> t[i].source, data |-> t[i].proxy.data,
         url |-> t[i].proxy.url, location |-> t[i].location]]

-----------------------------------------------------------------------------
(* WeatherProxy.refresh_data, one assignment at a time *)

\* the outcome of requests.get(self.url), kept by the thread that ran it
NoOutcome == [kind |-> "none", text |-> "", status_code |-> 0]
Responded(r) == [kind |-> "ok", text |-> r.text, status_code |-> r.status_code]
ConnectionError == [kind |-> "conn", text |-> "", status_code |-> 0]
OtherError == [kind |-> "other", text |-> "", status_code |-> 0]

FetchOutcomes == {Responded(r) : r \in Responses} \cup {ConnectionError, OtherError}

\* a variant without the except clause
handled_no_except(outcome) == outcome.kind = "ok"

\* does refresh_data handle this outcome (try body or except clause)?
handled(outcome) == outcome.kind \in {"ok", "conn"}

\* self.data = response.text   /   self.data = ""
store_data(proxy, outcome) ==
    [proxy EXCEPT !.data = IF outcome.kind = "ok" THEN Some(outcome.text) ELSE Some("")]

\* self.status_code = response.status_code   /   self.status_code = 404
store_status_code(proxy, outcome) ==
    [proxy EXCEPT !.status_code =
        IF outcome.kind = "ok" THEN Some(outcome.status_code) ELSE Some(404)]

-----------------------------------------------------------------------------
(* adapters.adapt_weather, the normalization collaborator *)

LowerCase ==
    [c \in {"O", "W", "M", "o", "w", "m"} |->
        CASE c = "O" -> "o" [] c = "W" -> "w" [] c = "M" -> "m" [] OTHER -> c]

\* str.lower()
lower(name) == [i \in 1..Len(name) |-> LowerCase[name[i]]]

Raised == [raised |-> TRUE, value |-> EmptyDict]
Returned(v) == [raised |-> FALSE, value |-> v]

\* adapt_weather(wtype, source_name, data): fails on an unknown source, an
\* unsupported category, an absent payload and a malformed payload
adapt_weather(wtype, source_name, data) ==
    IF /\ source_name = <<"o", "w", "m">>
       /\ wtype \in {"current", "forecast"}
       /\ data = Some("sunny")
    THEN Returned([summary |-> data[1], kind |-> wtype, provider |-> source_name])
    ELSE Raised

-----------------------------------------------------------------------------
(* WeatherHistory *)

HISTORY_ENTRY_SCHEMA == [time |-> <<>>, wtype |-> "", data |-> <<>>]
HISTORY_DATA_ENTRY_SCHEMA == [location |-> EmptyDict, source |-> EmptyDict, measurements |-> EmptyDict]

Digit == <<"0", "1", "2", "3", "4", "5", "6", "7", "8", "9">>

\* a variant that keeps the last digit only
str_last_digit(n) == <<Digit[(n % 10) + 1]>>

\* str(rtime): the decimal digits of the number
RECURSIVE str(_)
str(n) == IF n < 10 THEN <<Digit[n + 1]>> ELSE str(n \div 10) \o <<Digit[(n % 10) + 1]>>

\* a variant without the except clause: the exception leaves the method
try_adapt_no_except(wtype, source, data) == adapt_weather(wtype, lower(source.name), data)

\* try: adapters.adapt_weather(...)  except: measurements = {}
try_adapt(wtype, source, data) ==
    LET r == adapt_weather(wtype, lower(source.name), data)
    IN  IF r.raised THEN Returned(EmptyDict) ELSE r

\* a variant whose except clause leaves the loop (break) after recording
\* the failing entry
RECURSIVE normalize_break(_, _, _, _)
normalize_break(entry, wtype, raw_data_map, i) ==
    IF i > Len(raw_data_map) THEN Returned(entry)
    ELSE LET raw_entry == raw_data_map[i]
             r == adapt_weather(wtype, lower(raw_entry.source.name), raw_entry.data)
             history_entry == [location |-> raw_entry.location,
                               source |-> raw_entry.source,
                               measurements |-> r.value]
             added == [entry EXCEPT !.data = db_add(@, history_entry)]
         IN  IF r.raised THEN Returned(added)
             ELSE normalize_break(added, wtype, raw_data_map, i + 1)

\* the body of the for loop of add_history_entry for raw entries i..
RECURSIVE normalize_from(_, _, _, _)
normalize_from(entry, wtype, raw_data_map, i) ==
    IF i > Len(raw_data_map) THEN Returned(entry)
    ELSE LET raw_entry == raw_data_map[i]
             m == try_adapt(wtype, raw_entry.source, raw_entry.data)
             history_entry == [location |-> raw_entry.location,
                               source |-> raw_entry.source,
                               measurements |-> m.value]
         IN  IF m.raised THEN Raised
             ELSE normalize_from(
                      [entry EXCEPT !.data =
                          db_add(@, merge_dicts(HISTORY_DATA_ENTRY_SCHEMA, history_entry))],
                      wtype, raw_data_map, i + 1)

\* a variant in which every entry holds the one data list of the schema:
\* the new data-entries are added to the list all entries share
add_history_entry_shared(log, time, wtype, raw_data_map) ==
    LET shared == IF log = <<>> THEN <<>> ELSE log[Len(log)].data
        entry == [time |-> time, wtype |-> wtype, data |-> shared]
        r == normalize_from(entry, wtype, raw_data_map, 1)
    IN  IF r.raised THEN Raised
        ELSE Returned(db_add([i \in DOMAIN log |-> [log[i] EXCEPT !.data = r.value.data]],
                             r.value))

\* a variant that appends one entry per raw entry
add_history_entry_per_raw(log, time, wtype, raw_data_map) ==
    LET entry == merge_dicts(HISTORY_ENTRY_SCHEMA, [time |-> time, wtype |-> wtype])
        r == normalize_from(entry, wtype, raw_data_map, 1)
    IN  IF r.raised THEN Raised
        ELSE Returned(log \o [i \in DOMAIN r.value.data |->
                                  [entry EXCEPT !.data = <<r.value.data[i]>>]])

\* WeatherHistory.add_history_entry, as a function of the log: the new log,
\* or Raised when an exception leaves the method
add_history_entry(log, time, wtype, raw_data_map) ==
    LET entry == merge_dicts(HISTORY_ENTRY_SCHEMA, [time |-> time, wtype |-> wtype])
        r == normalize_from(entry, wtype, raw_data_map, 1)
    IN  IF r.raised THEN Raised ELSE Returned(db_add(log, r.value))

\* WeatherHistory.dates
dates(log) == [i \in 1..Len(log) |-> log[i].time]

\* JSON text, as the tree the encoder writes and the decoder parses
JStr(s) == [t |-> "str", v |-> s]
JArr(a) == [t |-> "arr", v |-> a]
JObj(o) == [t |-> "obj", v |-> o]

\* json.dumps of a dict whose values are strings
dump_flat(d) == JObj([key \in DOMAIN d |-> JStr(d[key])])

dump_source(source) ==
    JObj([name |-> JStr(source.name), urls |-> dump_flat(source.urls)])

dump_data_entry(e) ==
    JObj([location |-> dump_flat(e.location),
          source |-> dump_source(e.source),
          measurements |-> dump_flat(e.measurements)])

dump_entry(e) ==
    JObj([time |-> JStr(e.time), wtype |-> JStr(e.wtype),
          data |-> JArr([j \in 1..Len(e.data) |-> dump_data_entry(e.data[j])])])

\* json.dumps(self.__table)
json_dumps(log) == JArr([i \in 1..Len(log) |-> dump_entry(log[i])])

\* json.loads: new objects built from the text alone
RECURSIVE json_loads(_)
json_loads(j) ==
    CASE j.t = "str" -> j.v
      [] j.t = "arr" -> [i \in 1..Len(j.v) |-> json_loads(j.v[i])]
      [] j.t = "obj" -> [key \in DOMAIN j.v |-> json_loads(j.v[key])]

\* what a reader holds: `value` is what the reader sees, `origin[i]` is the
\* position in the log of the entry object that value[i] is (0 when
\* value[i] is an object of the reader's own), `dirty` says the reader has
\* changed the value since it got it
Held(value, origin) == [held |-> TRUE, dirty |-> FALSE, value |-> value, origin |-> origin]

\* a variant that copies the list and keeps the entry objects:
\* list(self.__table)
entries_shallow(log) == Held(log, [i \in 1..Len(log) |-> i])

\* WeatherHistory.entries: json.loads(json.dumps(self.__table)), no object
\* of the result is an object of the log
entries(log) == Held(json_loads(json_dumps(log)), [i \in 1..Len(log) |-> 0])

\* the changes a reader makes to the value it holds
BogusEntry == [time |-> <<"0">>, wtype |-> "bogus", data |-> <<>>]

Mutations ==
    [kind : {"del entry", "add entry"}, i : {0}, j : {0}]
        \cup [kind : {"set time", "del data"}, i : 1..MaxHistory, j : {0}]
        \cup [kind : {"set measurements"}, i : 1..MaxHistory, j : 1..2]

\* can the change be made to a list of entries?
applies(es, m) ==
    CASE m.kind = "del entry" -> Len(es) > 0
      [] m.kind = "add entry" -> Len(es) <= MaxHistory
      [] m.kind = "set measurements" -> m.i <= Len(es) /\ m.j <= Len(es[m.i].data)
      [] OTHER -> m.i <= Len(es)

\* the change made to one entry object
mutate_entry(e, m) ==
    CASE m.kind = "set time" -> [e EXCEPT !.time = <<"0">>]
      [] m.kind = "del data" -> [e EXCEPT !.data = <<>>]
      [] m.kind = "set measurements" ->
             IF m.j <= Len(e.data)
             THEN [e EXCEPT !.data[m.j].measurements = [summary |-> "edited"]]
             ELSE e
      [] OTHER -> e

\* the value the reader sees after the change
mutate_value(es, m) ==
    CASE m.kind = "del entry" -> SubSeq(es, 1, Len(es) - 1)
      [] m.kind = "add entry" -> Append(es, BogusEntry)
      [] OTHER -> [es EXCEPT ![m.i] = mutate_entry(@, m)]

mutate_origin(origin, m) ==
    CASE m.kind = "del entry" -> SubSeq(origin, 1, Len(origin) - 1)
      [] m.kind = "add entry" -> Append(origin, 0)
      [] OTHER -> origin

\* the log after the change: an entry object of the log that the reader
\* holds changes with it
mutate_log(log, origin, m) ==
    IF m.kind \in {"set time", "del data", "set measurements"} /\ origin[m.i] # 0
    THEN [log EXCEPT ![origin[m.i]] = mutate_entry(@, m)]
    ELSE log

-----------------------------------------------------------------------------
(* Callers and the state after construction *)

CallerIds == {1, 2}
MainCaller == 1

\* `before` is the matrix as add_location, remove_location or Core.refresh
\* found it
NoCall == [op |-> "none", wtype |-> "", location |-> EmptyDict, time |-> 0, before |-> <<>>]

\* no value of WeatherHistory.entries is held by a reader
NoView == [held |-> FALSE, dirty |-> FALSE, value |-> <<>>, origin |-> <<>>]

\* Core.__init__
Init ==
    /\ \E locations \in SettingsLocations :
           table = WeatherProxyTable(locations, environment)
    /\ history = <<>>
    /\ clock = Epoch
    /\ pc = [c \in CallerIds |-> "idle"]
    /\ call = [c \in CallerIds |-> NoCall]
    /\ threads = [c \in CallerIds |-> <<>>]
    /\ k = [c \in CallerIds |-> 0]
    /\ refreshed = 0
    /\ view = NoView

RowSize == Len(WTYPES) * Len(sources_info)

-----------------------------------------------------------------------------
(* Structural operations of the Proxy Matrix *)

AddLocation(c, location) ==
    /\ pc[c] = "idle"
    /\ Len(table) + RowSize <= MaxLocations * RowSize
    /\ table' = add_location(table, location, environment)
    /\ pc' = [pc EXCEPT ![c] = "added"]
    /\ call' = [call EXCEPT ![c] = [NoCall EXCEPT !.op = "add_location", !.location = location, !.before = table]]
    /\ UNCHANGED <<history, clock, threads, k, refreshed, view>>

RemoveLocation(c, location) ==
    /\ pc[c] = "idle"
    /\ table' = remove_location(table, location)
    /\ pc' = [pc EXCEPT ![c] = "removed"]
    /\ call' = [call EXCEPT ![c] = [NoCall EXCEPT !.op = "remove_location", !.location = location, !.before = table]]
    /\ UNCHANGED <<history, clock, threads, k, refreshed, view>>

-----------------------------------------------------------------------------
(* WeatherProxyTable.refresh *)

\* a variant that selects every entry, whatever its weather-type
new_threads_all(t, wtype) ==
    [i \in 1..Len(t) |-> [entry |-> i, st |-> "created", outcome |-> NoOutcome]]

\* lines 91-95: one thread per entry db_find returns, not yet started
new_threads(t, wtype) ==
    LET found == db_find(t, "wtype", wtype)
    IN  [i \in 1..Len(found) |-> [entry |-> found[i], st |-> "created", outcome |-> NoOutcome]]

\* a variant for a join that does not wait
is_alive_never(thread) == FALSE

\* a variant in which a thread that ended by an exception stays alive
is_alive_raised(thread) == thread.st \in {"running", "set_status", "raised"}

\* Thread.is_alive(): started and not yet finished
is_alive(thread) == thread.st \in {"running", "set_status"}

\* a thread that join() returns for: it ran to its end, normally or by an
\* exception that the thread machinery reports and drops
finished(thread) == thread.st \in {"done", "raised"}

\* entry into WeatherProxyTable.refresh from a call `op`
EnterRefresh(c, op, wtype, time, before) ==
    LET ts == new_threads(table, wtype)
    IN  /\ threads' = [threads EXCEPT ![c] = ts]
        /\ k' = [k EXCEPT ![c] = 1]
        /\ pc' = [pc EXCEPT ![c] = IF Len(ts) = 0 THEN "joined" ELSE "start"]
        /\ call' = [call EXCEPT ![c] = [NoCall EXCEPT !.op = op, !.wtype = wtype, !.time = time,
                                                         !.before = before]]

\* Core.refresh, lines 27-28 up to the start loop
CoreRefresh(c, wtype) ==
    /\ pc[c] = "idle"
    /\ Len(history) < MaxHistory
    /\ \E now \in clock..(Epoch + MaxTime) :
           /\ clock' = now
           /\ EnterRefresh(c, "Core.refresh", wtype, now, table)
    /\ UNCHANGED <<table, history, refreshed, view>>

\* a direct call of WeatherProxyTable.refresh
TableRefresh(c, wtype) ==
    /\ pc[c] = "idle"
    /\ EnterRefresh(c, "refresh", wtype, 0, <<>>)
    /\ UNCHANGED <<table, history, clock, refreshed, view>>

\* lines 97-98: t.start() for the next thread of the list
StartThread(c) ==
    /\ pc[c] = "start"
    /\ threads' = [threads EXCEPT ![c][k[c]].st = "running"]
    /\ IF k[c] = Len(threads[c])
       THEN /\ pc' = [pc EXCEPT ![c] = "join"]
            /\ k' = [k EXCEPT ![c] = 1]
       ELSE /\ k' = [k EXCEPT ![c] = @ + 1]
            /\ UNCHANGED pc
    /\ UNCHANGED <<table, history, clock, call, refreshed, view>>

\* a running thread: requests.get ends with `outcome`; on a response or a
\* ConnectionError the first assignment (self.data) follows, any other
\* exception leaves refresh_data and ends the thread
Fetch(c, i, outcome) ==
    /\ i \in 1..Len(threads[c])
    /\ threads[c][i].st = "running"
    /\ IF handled(outcome)
       THEN /\ table' = [table EXCEPT ![threads[c][i].entry].proxy = store_data(@, outcome)]
            /\ threads' = [threads EXCEPT ![c][i].st = "set_status", ![c][i].outcome = outcome]
       ELSE /\ threads' = [threads EXCEPT ![c][i].st = "raised", ![c][i].outcome = outcome]
            /\ UNCHANGED table
    /\ UNCHANGED <<history, clock, pc, call, k, refreshed, view>>

\* the second assignment of refresh_data (self.status_code), then the thread ends
SetStatusCode(c, i) ==
    /\ i \in 1..Len(threads[c])
    /\ threads[c][i].st = "set_status"
    /\ table' = [table EXCEPT ![threads[c][i].entry].proxy =
                     store_status_code(@, threads[c][i].outcome)]
    /\ threads' = [threads EXCEPT ![c][i].st = "done"]
    /\ UNCHANGED <<history, clock, pc, call, k, refreshed, view>>

\* lines 100-101: t.join() returns for the next thread of the list
JoinThread(c) ==
    /\ pc[c] = "join"
    /\ ~is_alive(threads[c][k[c]])
    /\ IF k[c] = Len(threads[c])
       THEN /\ pc' = [pc EXCEPT ![c] = "joined"]
            /\ UNCHANGED k
       ELSE /\ k' = [k EXCEPT ![c] = @ + 1]
            /\ UNCHANGED pc
    /\ UNCHANGED <<table, history, clock, call, threads, refreshed, view>>

-----------------------------------------------------------------------------
(* Core.refresh, line 29, and the return of every call *)

AddHistoryEntry(c) ==
    /\ pc[c] = "joined"
    /\ call[c].op = "Core.refresh"
    /\ LET r == add_history_entry(history, str(call[c].time), call[c].wtype, proxy_info(table))
       IN  IF r.raised
           THEN /\ pc' = [pc EXCEPT ![c] = "error"]
                /\ UNCHANGED <<history, refreshed>>
           ELSE /\ pc' = [pc EXCEPT ![c] = "appended"]
                /\ history' = r.value
                /\ refreshed' = refreshed + 1
    /\ UNCHANGED <<table, clock, call, threads, k, view>>

\* the call returns to its caller
Return(c) ==
    /\ \/ pc[c] \in {"added", "removed", "appended"}
       \/ pc[c] = "joined" /\ call[c].op = "refresh"
    /\ pc' = [pc EXCEPT ![c] = "idle"]
    /\ call' = [call EXCEPT ![c] = NoCall]
    /\ threads' = [threads EXCEPT ![c] = <<>>]
    /\ k' = [k EXCEPT ![c] = 0]
    /\ UNCHANGED <<table, history, clock, refreshed, view>>

-----------------------------------------------------------------------------
(* A reader of the log *)

\* WeatherHistory.entries, called while no other call is in progress
ReadEntries(c) ==
    /\ pc[c] = "idle"
    /\ view' = entries(history)
    /\ UNCHANGED <<table, history, clock, pc, call, threads, k, refreshed>>

\* the reader changes the value it got from entries
MutateView(c, m) ==
    /\ pc[c] = "idle"
    /\ view.held
    /\ applies(view.value, m)
    /\ view' = [view EXCEPT !.dirty = TRUE,
                            !.value = mutate_value(@, m),
                            !.origin = mutate_origin(@, m)]
    /\ history' = mutate_log(history, view.origin, m)
    /\ UNCHANGED <<table, clock, pc, call, threads, k, refreshed>>

-----------------------------------------------------------------------------
(* The Orchestrator used single-threaded: Core is constructed from the      *)
(* settings and exposes refresh alone                                       *)

Next ==
    \/ \E wtype \in WtypeArgs : CoreRefresh(MainCaller, wtype)
    \/ StartThread(MainCaller)
    \/ \E i \in DOMAIN threads[MainCaller], outcome \in FetchOutcomes :
           Fetch(MainCaller, i, outcome)
    \/ \E i \in DOMAIN threads[MainCaller] : SetStatusCode(MainCaller, i)
    \/ JoinThread(MainCaller)
    \/ AddHistoryEntry(MainCaller)
    \/ Return(MainCaller)

Spec == Init /\ [][Next]_vars

\* the same, scheduled fairly: the caller's thread and every started fetch
\* thread get to run, and every requests.get comes to an end
Fairness ==
    /\ WF_vars(StartThread(MainCaller))
    /\ \A i \in 1..(MaxLocations * RowSize) :
           /\ WF_vars(\E outcome \in FetchOutcomes : Fetch(MainCaller, i, outcome))
           /\ WF_vars(SetStatusCode(MainCaller, i))
    /\ WF_vars(JoinThread(MainCaller))
    /\ WF_vars(AddHistoryEntry(MainCaller))

LiveSpec == Spec /\ Fairness

-----------------------------------------------------------------------------
(* The Orchestrator used by several callers at once: Core.refresh holds no  *)
(* lock, so the calls of different callers interleave step by step          *)

ConcNext ==
    \/ \E c \in CallerIds, wtype \in WtypeArgs : CoreRefresh(c, wtype)
    \/ \E c \in CallerIds : StartThread(c)
    \/ \E c \in CallerIds : \E i \in DOMAIN threads[c], outcome \in FetchOutcomes :
           Fetch(c, i, outcome)
    \/ \E c \in CallerIds : \E i \in DOMAIN threads[c] : SetStatusCode(c, i)
    \/ \E c \in CallerIds : JoinThread(c)
    \/ \E c \in CallerIds : AddHistoryEntry(c)
    \/ \E c \in CallerIds : Return(c)

\* Core constructed from settings that hold one location at most
ConcInit == Init /\ Len(table) <= RowSize

ConcSpec == ConcInit /\ [][ConcNext]_vars

-----------------------------------------------------------------------------
(* The Orchestrator used single-threaded by a caller that also reads the    *)
(* log and changes what it read                                             *)

ReaderNext ==
    \/ \E wtype \in WtypeArgs : CoreRefresh(MainCaller, wtype)
    \/ StartThread(MainCaller)
    \/ \E i \in DOMAIN threads[MainCaller], outcome \in FetchOutcomes :
           Fetch(MainCaller, i, outcome)
    \/ \E i \in DOMAIN threads[MainCaller] : SetStatusCode(MainCaller, i)
    \/ JoinThread(MainCaller)
    \/ AddHistoryEntry(MainCaller)
    \/ Return(MainCaller)
    \/ ReadEntries(MainCaller)
    \/ \E m \in Mutations : MutateView(MainCaller, m)

ReaderSpec == ConcInit /\ [][ReaderNext]_vars

-----------------------------------------------------------------------------
(* The Proxy Matrix used on its own by one caller: construction, then any   *)
(* sequence of add_location, remove_location and refresh calls              *)

MatrixNext ==
    \/ \E location \in Locations : AddLocation(MainCaller, location)
    \/ \E location \in Locations : RemoveLocation(MainCaller, location)
    \/ \E wtype \in WtypeArgs : TableRefresh(MainCaller, wtype)
    \/ StartThread(MainCaller)
    \/ \E i \in DOMAIN threads[MainCaller], outcome \in FetchOutcomes :
           Fetch(MainCaller, i, outcome)
    \/ \E i \in DOMAIN threads[MainCaller] : SetStatusCode(MainCaller, i)
    \/ JoinThread(MainCaller)
    \/ Return(MainCaller)

MatrixSpec == Init /\ [][MatrixNext]_vars

-----------------------------------------------------------------------------
(* Properties of the Proxy Matrix, checked under MatrixSpec *)

Range(seq) == {seq[i] : i \in DOMAIN seq}

\* the positions of the entries of t whose weather-type is wtype
Matching(t, wtype) == {j \in DOMAIN t : t[j].wtype = wtype}

\* WeatherProxyTable.refresh has returned to caller c
RefreshReturned(c) == pc[c] = "joined"

\* C1: when refresh(w) returns, it has started exactly one worker per matrix
\* entry of weather-type w, and every one of them has finished: none is
\* still running and none is not yet started.
C1_RefreshIsBarrier ==
    \A c \in CallerIds :
        RefreshReturned(c) =>
            /\ {threads[c][i].entry : i \in DOMAIN threads[c]} = Matching(table, call[c].wtype)
            /\ Len(threads[c]) = Cardinality(Matching(table, call[c].wtype))
            /\ \A i \in DOMAIN threads[c] : finished(threads[c][i])

C1_Witness ==
    /\ RefreshReturned(MainCaller)
    /\ Len(threads[MainCaller]) >= 2
    /\ \E i \in DOMAIN threads[MainCaller] : threads[MainCaller][i].st = "raised"
    /\ \E i \in DOMAIN threads[MainCaller] : threads[MainCaller][i].st = "done"

\* the proxy a thread of caller c works on
ProxyOf(c, i) == table[threads[c][i].entry].proxy

\* C3: a fetch that ends in a connection failure stores the empty payload
\* and status 404 and its refresh_data returns normally; every other fetch
\* of the same refresh has run to its end, and a fetch that got a response
\* has stored that response.
C3_ConnectionFailureIsContained ==
    \A c \in CallerIds :
        RefreshReturned(c) =>
            \A i \in DOMAIN threads[c] :
                /\ threads[c][i].outcome.kind = "conn" =>
                       /\ threads[c][i].st = "done"
                       /\ ProxyOf(c, i).data = Some("")
                       /\ ProxyOf(c, i).status_code = Some(404)
                       /\ \A j \in DOMAIN threads[c] : finished(threads[c][j])
                /\ threads[c][i].outcome.kind = "ok" =>
                       /\ threads[c][i].st = "done"
                       /\ ProxyOf(c, i).data = Some(threads[c][i].outcome.text)
                       /\ ProxyOf(c, i).status_code = Some(threads[c][i].outcome.status_code)

C3_Witness ==
    /\ RefreshReturned(MainCaller)
    /\ \E i, j \in DOMAIN threads[MainCaller] :
           /\ threads[MainCaller][i].outcome.kind = "conn"
           /\ threads[MainCaller][j].outcome.kind = "ok"
           /\ ProxyOf(MainCaller, i).status_code = Some(404)
           /\ ProxyOf(MainCaller, j).status_code = Some(200)

\* C4: after refresh(w) returns, every matrix entry of weather-type w has a
\* payload and a status that are not absent, whatever the outcome of each
\* fetch.
C4_NoAbsentPayloadAfterRefresh ==
    \A c \in CallerIds :
        RefreshReturned(c) =>
            \A j \in Matching(table, call[c].wtype) :
                /\ table[j].proxy.data # None
                /\ table[j].proxy.status_code # None

\* add_location(L, params) / remove_location(L) has just returned to caller c
Added(c) == pc[c] = "added"
Removed(c) == pc[c] = "removed"

\* C7: add_location(L, params) leaves the entries that existed unchanged and
\* appends Len(WTYPES) * Len(sources) entries, exactly one per (weather-type,
\* source) pair, each with location L and a proxy whose payload and status
\* are absent.
C7_AddLocationAddsOneRow ==
    \A c \in CallerIds :
        Added(c) =>
            LET old == call[c].before
                new == (Len(old) + 1)..Len(table)
            IN  /\ Len(table) = Len(old) + Len(WTYPES) * Len(sources_info)
                /\ SubSeq(table, 1, Len(old)) = old
                /\ \A j \in new :
                       /\ table[j].location = call[c].location
                       /\ table[j].proxy.data = None
                       /\ table[j].proxy.status_code = None
                /\ \A w \in DOMAIN WTYPES, s \in DOMAIN sources_info :
                       Cardinality({j \in new : /\ table[j].wtype = WTYPES[w]
                                                /\ table[j].source = sources_info[s]}) = 1

C7_Witness ==
    /\ Added(MainCaller)
    /\ Len(call[MainCaller].before) > 0
    /\ \E j \in DOMAIN call[MainCaller].before : table[j].proxy.data # None
    /\ \E j \in DOMAIN call[MainCaller].before :
           table[j].location # call[MainCaller].location

\* the number of entries of t before position j whose location is L
RemovedBefore(t, L, j) == Cardinality({i \in 1..(j - 1) : t[i].location = L})

\* C8: after remove_location(L) no entry has a location equal to L, and the
\* entries of the other locations are those present before the call: as
\* many, in the same order, with the same proxies (URL, payload, status).
C8_RemoveLocationRemovesOnlyL ==
    \A c \in CallerIds :
        Removed(c) =>
            LET old == call[c].before
                L == call[c].location
                kept == {j \in DOMAIN old : old[j].location # L}
            IN  /\ \A j \in DOMAIN table : table[j].location # L
                /\ Len(table) = Cardinality(kept)
                /\ \A j \in kept : table[j - RemovedBefore(old, L, j)] = old[j]

C8_Witness ==
    /\ Removed(MainCaller)
    /\ Len(table) < Len(call[MainCaller].before)
    /\ \E j \in DOMAIN table : table[j].proxy.data # None
    /\ call[MainCaller].before[1].location = call[MainCaller].location

\* the locations that are registered: those the matrix holds entries for
Registered == {table[j].location : j \in DOMAIN table}

\* C9: in every state, each registered location has exactly one matrix entry
\* per (weather-type, source) pair, Len(WTYPES) * Len(sources) in all, and a
\* location that is not registered has none.
C9_OneRowPerLocation ==
    \A L \in Locations :
        LET row == {j \in DOMAIN table : table[j].location = L}
        IN  IF L \in Registered
            THEN /\ Cardinality(row) = Len(WTYPES) * Len(sources_info)
                 /\ \A w \in DOMAIN WTYPES, s \in DOMAIN sources_info :
                        Cardinality({j \in row : /\ table[j].wtype = WTYPES[w]
                                                 /\ table[j].source = sources_info[s]}) = 1
            ELSE row = {}

\* a step of caller c's WeatherProxyTable.refresh: the call, a step of one
\* of its threads, or a step of its loops, up to the return
RefreshStep(c) == pc'[c] \in {"start", "join", "joined"}

\* what a step leaves alone when it changes nothing but the payload and
\* the status of proxies of weather-type wtype
FrameOfRefresh(wtype) ==
    /\ Len(table') = Len(table)
    /\ \A j \in DOMAIN table :
           /\ table'[j].wtype = table[j].wtype
           /\ table'[j].source = table[j].source
           /\ table'[j].location = table[j].location
           /\ table'[j].proxy.url = table[j].proxy.url
           /\ table[j].wtype # wtype => table'[j].proxy = table[j].proxy

\* C10: no step of refresh(w), from its call to its return, changes the
\* list of entries (their number, weather-types, sources, locations), a
\* proxy's URL, or the payload or status of an entry of another
\* weather-type.
C10_RefreshFrame ==
    [][\A c \in CallerIds : RefreshStep(c) => FrameOfRefresh(call'[c].wtype)]_vars

C10_Witness ==
    /\ RefreshReturned(MainCaller)
    /\ \E i \in DOMAIN threads[MainCaller] :
           /\ threads[MainCaller][i].st = "done"
           /\ ProxyOf(MainCaller, i).data = Some("sunny")
    /\ \E j \in DOMAIN table :
           /\ table[j].wtype # call[MainCaller].wtype
           /\ table[j].proxy.status_code = Some(404)

-----------------------------------------------------------------------------
(* Properties of Core.refresh and the History Log, checked under Spec *)

\* Core.refresh has just appended its entry and returned to caller c
Appended(c) == pc[c] = "appended"

LastEntry == history[Len(history)]

\* C2: the History Entry appended by refresh(w) holds exactly one data-entry
\* per matrix entry of weather-type w and none for an entry of another
\* weather-type; when no matrix entry has weather-type w, its data sequence
\* is empty.
C2_EntryHoldsOnlyRefreshedType ==
    \A c \in CallerIds :
        Appended(c) =>
            LET m == Matching(table, call[c].wtype)
            IN  /\ Len(LastEntry.data) = Cardinality(m)
                /\ \A s \in Range(sources_info), L \in Locations :
                       Cardinality({i \in DOMAIN LastEntry.data :
                                       /\ LastEntry.data[i].source = s
                                       /\ LastEntry.data[i].location = L})
                       = Cardinality({j \in m : /\ table[j].source = s
                                                /\ table[j].location = L})
                /\ m = {} => LastEntry.data = <<>>

\* what the normalizer does with matrix entry j for weather-type wtype
Normalized(wtype, j) ==
    adapt_weather(wtype, lower(table[j].source.name), table[j].proxy.data)

\* C5: the appended History Entry has one data-entry per raw entry, in the
\* same order; a raw entry whose normalization fails has empty measurements
\* and any other raw entry has the measurements the normalizer returned.
C5_NormalizationFailureIsLocal ==
    \A c \in CallerIds :
        Appended(c) =>
            /\ Len(LastEntry.data) = Len(table)
            /\ \A i \in DOMAIN LastEntry.data :
                   /\ LastEntry.data[i].location = table[i].location
                   /\ LastEntry.data[i].source = table[i].source
                   /\ Normalized(call[c].wtype, i).raised =>
                          LastEntry.data[i].measurements = EmptyDict
                   /\ ~Normalized(call[c].wtype, i).raised =>
                          LastEntry.data[i].measurements = Normalized(call[c].wtype, i).value

C5_Witness ==
    /\ Appended(MainCaller)
    /\ \E i, j \in DOMAIN LastEntry.data :
           /\ i < j
           /\ Normalized(call[MainCaller].wtype, i).raised
           /\ LastEntry.data[i].measurements = EmptyDict
           /\ ~Normalized(call[MainCaller].wtype, j).raised
           /\ LastEntry.data[j].measurements # EmptyDict

\* C6: no call of Core.refresh or add_history_entry ends in an error,
\* whatever the fetches and the normalizations do: a connection failure
\* shows as an empty payload and a failed normalization as empty
\* measurements in the appended entry.
C6_RefreshNeverRaises ==
    \A c \in CallerIds :
        /\ pc[c] # "error"
        /\ Appended(c) =>
               /\ \A i \in DOMAIN threads[c] :
                      threads[c][i].outcome.kind = "conn" => ProxyOf(c, i).data = Some("")
               /\ \A i \in DOMAIN LastEntry.data :
                      Normalized(call[c].wtype, i).raised =>
                          LastEntry.data[i].measurements = EmptyDict

C6_Witness ==
    /\ Appended(MainCaller)
    /\ \E i \in DOMAIN threads[MainCaller] : threads[MainCaller][i].outcome.kind = "other"
    /\ \E i \in DOMAIN threads[MainCaller] : threads[MainCaller][i].outcome.kind = "conn"
    /\ \E j \in DOMAIN table : table[j].proxy.data = None
    /\ \E j \in DOMAIN table : table[j].proxy.data = Some("sunny")

-----------------------------------------------------------------------------
(* Properties of the History Log, checked under Spec *)

\* C11: the log before a step is a prefix of the log after it: every entry
\* keeps its timestamp, its weather-type and its data sequence, and a later
\* append adds nothing to an earlier entry.
C11_LogIsAppendOnly ==
    [][/\ Len(history') >= Len(history)
       /\ SubSeq(history', 1, Len(history)) = history]_vars

C11_Witness ==
    /\ Len(history) = 2
    /\ Len(history[1].data) > 0
    /\ history[1].wtype # history[2].wtype
    /\ history[1].data # history[2].data

\* C12: in every state the length of the log is the number of Core.refresh
\* calls that have returned.
C12_OneEntryPerRefresh == Len(history) = refreshed

C12_Witness ==
    /\ Appended(MainCaller)
    /\ refreshed = 2
    /\ Len(table) = 2 * RowSize
    /\ \E i \in DOMAIN threads[MainCaller] : threads[MainCaller][i].st = "raised"

DigitValue(d) == CHOOSE n \in 0..9 : Digit[n + 1] = d

\* the number a string of decimal digits stands for
RECURSIVE number(_)
number(s) ==
    IF Len(s) = 0 THEN 0
    ELSE 10 * number(SubSeq(s, 1, Len(s) - 1)) + DigitValue(s[Len(s)])

\* C13: with one caller, whose calls follow one another, the timestamps that
\* `dates` returns are non-decreasing in append order, and after two calls
\* the log has length 2.
C13_DatesNonDecreasing ==
    /\ \A i, j \in DOMAIN dates(history) :
           i < j => number(dates(history)[i]) <= number(dates(history)[j])
    /\ refreshed = 2 => Len(dates(history)) = 2

C13_Witness ==
    /\ refreshed = 2
    /\ dates(history) = <<str(Epoch), str(Epoch + 1)>>
    /\ Len(str(Epoch + 1)) > 1 \/ Len(str(Epoch)) > 1

-----------------------------------------------------------------------------
(* The URL of a proxy, checked under MatrixSpec *)

\* what a placeholder stands for: the environment's value when the
\* environment defines the key, else the location's, else the empty string
Substituted(location, key) ==
    IF key \in DOMAIN environment THEN environment[key]
    ELSE IF key \in DOMAIN location THEN location[key]
    ELSE ""

\* C20: the URL of every matrix entry, whichever add_location call made
\* it, is the template of its source and weather-type with each
\* placeholder replaced by the environment's value for the key if the
\* environment has one, else by the location's value, else by the empty
\* string.
C20_EnvironmentOverridesLocation ==
    \A j \in DOMAIN table :
        LET template == table[j].source.urls[table[j].wtype]
            url == table[j].proxy.url
        IN  /\ Len(url) = Len(template)
            /\ \A p \in DOMAIN template :
                   url[p] = IF template[p].kind = "lit" THEN template[p].v
                            ELSE Substituted(table[j].location, template[p].v)

\* add_location has returned for a location that defines a key the
\* environment defines too; the template of the new entry also has a key
\* only the location defines and a key neither defines
C20_Witness ==
    /\ Added(MainCaller)
    /\ call[MainCaller].location = Loc2
    /\ Loc2.appid # environment.appid
    /\ \E j \in (Len(call[MainCaller].before) + 1)..Len(table) :
           /\ table[j].location = Loc2
           /\ table[j].source.urls[table[j].wtype] = CurrentTemplate
           /\ table[j].proxy.url =
                  <<"http://owm/weather?id=", "7", "&appid=", "envkey", "&units=", "">>

-----------------------------------------------------------------------------
(* One refresh as a function of the matrix it finds and of what each fetch  *)
(* ends with, checked under Spec                                            *)

\* the threads of call c that fetch for matrix entry j
FetchersOf(c, j) == {i \in DOMAIN threads[c] : threads[c][i].entry = j}

\* the payload of matrix entry j after the fetches of call c, from the
\* matrix the call found and the outcome of the fetch alone
PayloadAfter(c, j) ==
    LET found == call[c].before[j].proxy
        stored == {i \in FetchersOf(c, j) : handled(threads[c][i].outcome)}
    IN  IF stored = {} THEN found.data
        ELSE store_data(found, threads[c][CHOOSE i \in stored : TRUE].outcome).data

\* the entry of call c, from the matrix the call found and the outcomes of
\* its fetches alone, data-entries in the order of the matrix entries
ExpectedEntry(c) ==
    LET before == call[c].before
    IN  [time |-> str(call[c].time),
         wtype |-> call[c].wtype,
         data |-> [j \in 1..Len(before) |->
                      [location |-> before[j].location,
                       source |-> before[j].source,
                       measurements |->
                           try_adapt(call[c].wtype, before[j].source,
                                     PayloadAfter(c, j)).value]]]

\* C17: the entry a refresh call appends is a function of the matrix the
\* call found and of the outcome of each fetch, with the data-entries in
\* the order of the matrix entries: the order in which the fetch threads
\* start, store and end does not show in it.
C17_EntryIndependentOfFetchOrder ==
    \A c \in CallerIds : Appended(c) => LastEntry = ExpectedEntry(c)

\* two fetches of one call ended differently and their data-entries differ
C17_Witness ==
    /\ Appended(MainCaller)
    /\ Len(threads[MainCaller]) = 2
    /\ threads[MainCaller][1].outcome.kind = "conn"
    /\ threads[MainCaller][2].outcome.kind = "ok"
    /\ LastEntry.data[threads[MainCaller][1].entry].measurements
           # LastEntry.data[threads[MainCaller][2].entry].measurements

\* what the fetch of a thread hands to the proxy when every outcome is
\* stored: the body of the response, or the empty payload
FreshPayload(thread) ==
    IF thread.outcome.kind = "ok" THEN Some(thread.outcome.text) ELSE Some("")

\* C18: in the entry a refresh call appends, the measurements of every
\* matrix entry the call fetched for are those of the payload that fetch
\* ended with (the body of the response, or the empty payload after any
\* error), never those of a payload an earlier call left in the proxy.
C18_NoCarryOver ==
    \A c \in CallerIds :
        Appended(c) =>
            \A i \in DOMAIN threads[c] :
                LET j == threads[c][i].entry
                IN  LastEntry.data[j].measurements
                        = try_adapt(call[c].wtype, call[c].before[j].source,
                                    FreshPayload(threads[c][i])).value

-----------------------------------------------------------------------------
(* Termination, checked under LiveSpec *)

\* call c is inside WeatherProxyTable.refresh
InTableRefresh(c) == pc[c] \in {"start", "join"}

\* C19: under fair scheduling, with every fetch coming to an end (a
\* response, a connection failure or another error), a refresh of the
\* matrix that has begun returns and the Core.refresh that called it
\* appends its entry; a thread that ended by raising does not keep the
\* join waiting.
C19_RefreshTerminates ==
    \A c \in CallerIds :
        /\ InTableRefresh(c) ~> RefreshReturned(c)
        /\ (InTableRefresh(c) \/ RefreshReturned(c)) ~> Appended(c)

\* a call has appended its entry although one of its threads raised
C19_Witness ==
    /\ Appended(MainCaller)
    /\ \E i \in DOMAIN threads[MainCaller] : threads[MainCaller][i].st = "raised"
    /\ \E i \in DOMAIN threads[MainCaller] : threads[MainCaller][i].st = "done"

-----------------------------------------------------------------------------
(* Properties under concurrent callers, checked under ConcSpec *)

\* C14: whatever the interleaving of the callers' Core.refresh calls, an
\* entry of the log never carries an earlier timestamp than the entry
\* appended before it.
C14_TimestampsFollowAppendOrder ==
    \A i \in 1..(Len(history) - 1) :
        number(history[i].time) <= number(history[i + 1].time)

\* the payload and the status of the proxy are both absent, or both what one
\* fetch stores
Coherent(proxy) ==
    \/ proxy.data = None /\ proxy.status_code = None
    \/ \E outcome \in FetchOutcomes :
           /\ handled(outcome)
           /\ proxy.data = store_data(proxy, outcome).data
           /\ proxy.status_code = store_status_code(proxy, outcome).status_code

\* C16: in every state, whatever refresh_data calls are running, the
\* payload and the status of every proxy are both absent or both the
\* outcome of one fetch.
C16_PayloadAndStatusBelongTogether ==
    \A j \in DOMAIN table : Coherent(table[j].proxy)

-----------------------------------------------------------------------------
(* Properties of a reader of the log, checked under ReaderSpec *)

\* the reader changes the value it holds
MutateStep == view.held /\ view'.held /\ view'.dirty /\ view' # view

\* C15: whatever change the reader makes to a value entries returned
\* (deleting or adding an entry, changing an entry, deleting its
\* data-entries, changing a data-entry), the stored log is unchanged and
\* the next entries call returns what it would have returned without the
\* change.
C15_EntriesIsIndependentCopy ==
    [][MutateStep =>
          /\ history' = history
          /\ entries(history').value = entries(history).value]_vars

\* the reader has changed an entry and a data-entry of the value it holds,
\* which now differs from the log
C15_Witness ==
    /\ view.held /\ view.dirty
    /\ Len(view.value) = Len(history) /\ Len(history) = 2
    /\ view.value[1].time # history[1].time
    /\ Len(history[2].data) > 0
    /\ Len(view.value[2].data) = Len(history[2].data)
    /\ view.value[2].data[1].measurements # history[2].data[1].measurements
    /\ entries(history).value = history

====
